---------------------------- MODULE Spec2Model ----------------------------
(***************************************************************************)
(* A model of treechat's src/tree.py: the in-memory conversation tree      *)
(* (Node, ChatTree.add_node), its initialisation (init_chat_tree) and the  *)
(* HTTP handlers that act on it (startup_event, chat, get_tree,            *)
(* reset_tree).                                                            *)
(*                                                                         *)
(* Every handler is an `async def` that never awaits: the completion call  *)
(* of chat is the synchronous openai client, so a handler runs from its    *)
(* first line to its return without another handler running on the event   *)
(* loop.  Each handler is therefore one action.                            *)
(***************************************************************************)
EXTENDS Integers, Sequences, FiniteSets, TLC

(***************************************************************************)
(* Bounds of the model.                                                    *)
(***************************************************************************)
\* how many Node ids (uuid4 values) are drawn in one behaviour
MaxUuid == 3

(***************************************************************************)
(* Values.                                                                 *)
(***************************************************************************)
\* Python's None where a node id is expected (Optional[str]); node ids are
\* the positive integers, in the order uuid4 produced them
None == 0
\* a parent_id sent by a client that was never the id of any node
Bogus == -1
\* request.headers.get("X-API-Key") when the header is not sent (None)
NoHeader == "<no header>"
\* the X-API-Key values a request may carry: not sent, sent
ApiKeys == {NoHeader, "k"}
\* the prompts a client sends
Prompts == {"Hi"}
\* the contents the completion provider answers with
Replies == {"I'm good", "Great!"}
\* the content of the node init_chat_tree adds
Greeting == "Hello! How can I assist you today?"

\* the number of completions chat asks the provider for (n=3)
NumChoices == 3

\* the lists of choices (response.choices, by message.content) of length k
ChoicesOfLen(k) == [1..k -> Replies]
\* what client.chat.completions.create does: raises, or returns a response
\* with up to n choices (none included)
Completions ==
    {[raised |-> TRUE, choices |-> <<>>]}
    \cup {[raised |-> FALSE, choices |-> c] :
            c \in UNION {ChoicesOfLen(k) : k \in 0..NumChoices}}
\* the value of `completion` when the provider was not called
NoCompletion == [raised |-> FALSE, choices |-> <<>>]

VARIABLES
    nodes,      \* chat_tree.nodes: node id -> Node
    root_id,    \* chat_tree.root_id
    uuid,       \* the next value uuid.uuid4() returns
    started,    \* whether the startup event has run
    request,    \* the request handled last
    response,   \* what that request was answered with
    messages,   \* the messages list that request built (chat, replies branch)
    called,     \* whether that request called the completion provider
    completion, \* what the provider did when that request called it
    tasks       \* the handlers that have begun and not returned

vars ==
    <<nodes, root_id, uuid, started, request, response, messages, called,
      completion, tasks>>

(***************************************************************************)
(* Node and ChatTree.                                                      *)
(***************************************************************************)
\* Node.__init__: the id is the uuid drawn, children starts empty
Node(id, content, parent_id, is_user) ==
    [id |-> id, content |-> content, parent_id |-> parent_id,
     children |-> <<>>, is_user |-> is_user]

\* ChatTree.__init__: no nodes, no root
EmptyNodes == [i \in {} |-> None]

\* the tree as a value: the ChatTree's fields and the uuid source
Tree(ns, root, next) == [nodes |-> ns, root_id |-> root, uuid |-> next]

\* add_node without line 29: the child is stored but never listed in its
\* parent's children
add_node_unlinked(tree, content, parent_id, is_user) ==
    LET node == Node(tree.uuid, content, parent_id, is_user)
    IN  [tree |-> Tree((node.id :> node) @@ tree.nodes,
                       IF tree.root_id = None THEN node.id ELSE tree.root_id,
                       tree.uuid + 1),
         id |-> node.id]

\* add_node with children.insert(0, node.id) for line 29's append
add_node_prepend(tree, content, parent_id, is_user) ==
    LET node == Node(tree.uuid, content, parent_id, is_user)
        linked ==
            IF tree.root_id = None
            THEN tree.nodes
            ELSE IF parent_id \in DOMAIN tree.nodes
                 THEN [tree.nodes EXCEPT
                          ![parent_id].children = <<node.id>> \o @]
                 ELSE tree.nodes
    IN  [tree |-> Tree((node.id :> node) @@ linked,
                       IF tree.root_id = None THEN node.id ELSE tree.root_id,
                       tree.uuid + 1),
         id |-> node.id]

\* add_node with children.append(parent_id) for line 29's append of node.id
add_node_append_parent(tree, content, parent_id, is_user) ==
    LET node == Node(tree.uuid, content, parent_id, is_user)
        linked ==
            IF tree.root_id = None
            THEN tree.nodes
            ELSE IF parent_id \in DOMAIN tree.nodes
                 THEN [tree.nodes EXCEPT
                          ![parent_id].children = Append(@, parent_id)]
                 ELSE tree.nodes
    IN  [tree |-> Tree((node.id :> node) @@ linked,
                       IF tree.root_id = None THEN node.id ELSE tree.root_id,
                       tree.uuid + 1),
         id |-> node.id]

\* add_node with line 26 as `if not self.root_id or parent_id is None`: a node
\* sent without parent_id becomes the root
add_node_reroot(tree, content, parent_id, is_user) ==
    LET node == Node(tree.uuid, content, parent_id, is_user)
        linked ==
            IF tree.root_id = None
            THEN tree.nodes
            ELSE IF parent_id \in DOMAIN tree.nodes
                 THEN [tree.nodes EXCEPT
                          ![parent_id].children = Append(@, node.id)]
                 ELSE tree.nodes
    IN  [tree |-> Tree((node.id :> node) @@ linked,
                       IF tree.root_id = None \/ parent_id = None
                       THEN node.id ELSE tree.root_id,
                       tree.uuid + 1),
         id |-> node.id]

\* add_node giving a node sent without parent_id its own id as parent_id
add_node_self_parent(tree, content, parent_id, is_user) ==
    LET node == Node(tree.uuid, content, IF parent_id = None THEN tree.uuid ELSE parent_id, is_user)
        linked ==
            IF tree.root_id = None
            THEN tree.nodes
            ELSE IF parent_id \in DOMAIN tree.nodes
                 THEN [tree.nodes EXCEPT
                          ![parent_id].children = Append(@, node.id)]
                 ELSE tree.nodes
    IN  [tree |-> Tree((node.id :> node) @@ linked,
                       IF tree.root_id = None THEN node.id ELSE tree.root_id,
                       tree.uuid + 1),
         id |-> node.id]

\* add_node listing a node whose parent_id names no node under the root
add_node_fallback_root(tree, content, parent_id, is_user) ==
    LET node == Node(tree.uuid, content, parent_id, is_user)
        linked ==
            IF tree.root_id = None
            THEN tree.nodes
            ELSE IF parent_id \in DOMAIN tree.nodes
                 THEN [tree.nodes EXCEPT
                          ![parent_id].children = Append(@, node.id)]
                 ELSE [tree.nodes EXCEPT
                          ![tree.root_id].children = Append(@, node.id)]
    IN  [tree |-> Tree((node.id :> node) @@ linked,
                       IF tree.root_id = None THEN node.id ELSE tree.root_id,
                       tree.uuid + 1),
         id |-> node.id]

\* add_node with `children = [node.id]` for line 29's append
add_node_replace_children(tree, content, parent_id, is_user) ==
    LET node == Node(tree.uuid, content, parent_id, is_user)
        linked ==
            IF tree.root_id = None
            THEN tree.nodes
            ELSE IF parent_id \in DOMAIN tree.nodes
                 THEN [tree.nodes EXCEPT
                          ![parent_id].children = <<node.id>>]
                 ELSE tree.nodes
    IN  [tree |-> Tree((node.id :> node) @@ linked,
                       IF tree.root_id = None THEN node.id ELSE tree.root_id,
                       tree.uuid + 1),
         id |-> node.id]

\* ChatTree.add_node: returns the tree after the call and the new node's id
add_node(tree, content, parent_id, is_user) ==
    LET node == Node(tree.uuid, content, parent_id, is_user)
        linked ==
            IF tree.root_id = None
            THEN tree.nodes
            ELSE IF parent_id \in DOMAIN tree.nodes
                 THEN [tree.nodes EXCEPT
                          ![parent_id].children = Append(@, node.id)]
                 ELSE tree.nodes
    IN  [tree |-> Tree((node.id :> node) @@ linked,
                       IF tree.root_id = None THEN node.id ELSE tree.root_id,
                       tree.uuid + 1),
         id |-> node.id]

\* init_chat_tree without lines 44-45: the nodes are kept, and the welcome
\* message is added only to a tree that has none
init_chat_tree_keep(tree) ==
    IF DOMAIN tree.nodes = {}
    THEN add_node(tree, Greeting, None, FALSE).tree
    ELSE tree

\* init_chat_tree with line 47 as `if chat_tree.nodes:`: the tree is cleared
\* and the welcome message is never added
init_chat_tree_no_greeting(tree) ==
    LET cleared == Tree(EmptyNodes, None, tree.uuid)
    IN  IF DOMAIN cleared.nodes # {}
        THEN add_node(cleared, Greeting, None, FALSE).tree
        ELSE cleared

\* init_chat_tree: clear, then add the welcome message
init_chat_tree(tree) ==
    LET cleared == Tree(EmptyNodes, None, tree.uuid)
    IN  IF DOMAIN cleared.nodes = {}
        THEN add_node(cleared, Greeting, None, FALSE).tree
        ELSE cleared

(***************************************************************************)
(* chat: the history sent to the provider (lines 85-93).                   *)
(***************************************************************************)
\* one turn of the history, from a node
Turn(node) ==
    [role |-> IF node.is_user THEN "user" ELSE "assistant",
     content |-> node.content]

\* walk with messages.append for line 90's insert(0, ...): newest first
RECURSIVE walk_newest_first(_, _, _)
walk_newest_first(ns, current_id, msgs) ==
    IF current_id # None /\ current_id \in DOMAIN ns
    THEN walk_newest_first(ns, ns[current_id].parent_id,
                           Append(msgs, Turn(ns[current_id])))
    ELSE msgs

\* the while loop: from current_id upwards, each node's turn is inserted at
\* the front of msgs, until current_id is None or not a key of nodes
RECURSIVE walk(_, _, _)
walk(ns, current_id, msgs) ==
    IF current_id # None /\ current_id \in DOMAIN ns
    THEN walk(ns, ns[current_id].parent_id, <<Turn(ns[current_id])>> \o msgs)
    ELSE msgs

\* build_messages with the walk started at the parent of parent_id: the
\* node the client replies to is left out of the history
build_messages_above(ns, parent_id, prompt) ==
    Append(walk(ns,
                IF parent_id \in DOMAIN ns THEN ns[parent_id].parent_id
                                           ELSE None,
                <<>>),
           [role |-> "user", content |-> prompt])

\* messages as passed to client.chat.completions.create
build_messages(ns, parent_id, prompt) ==
    Append(walk(ns, parent_id, <<>>), [role |-> "user", content |-> prompt])

(***************************************************************************)
(* chat: the unique responses (lines 103-120).                             *)
(***************************************************************************)
\* the dict a node is answered with
View(id, content, parent_id, is_user) ==
    [id |-> id, content |-> content, parent_id |-> parent_id,
     is_user |-> is_user]

\* Unseen as `content not in unique_responses.values()`: the values are
\* dicts, none of which equals a content
Unseen_values(content, unique) == TRUE

\* `content not in unique_responses`: unique is the dict's values in
\* insertion order, each keyed by its content
Unseen(content, unique) ==
    \A i \in 1..Len(unique) : unique[i].content # content

\* the for loop over response.choices: the tree and the dict after it
RECURSIVE add_unique(_, _, _, _)
add_unique(tree, choices, parent_id, unique) ==
    IF choices = <<>>
    THEN [tree |-> tree, unique |-> unique]
    ELSE LET content == Head(choices)
             added == add_node(tree, content, parent_id, FALSE)
         IN  IF Unseen(content, unique)
             THEN add_unique(added.tree, Tail(choices), parent_id,
                             Append(unique,
                                    View(added.id, content, parent_id, FALSE)))
             ELSE add_unique(tree, Tail(choices), parent_id, unique)

(***************************************************************************)
(* Responses.                                                              *)
(***************************************************************************)
Ok(body) == [status |-> 200, body |-> body]
\* HTTPException(status_code=400, detail=...)
KeyRequired == [status |-> 400, body |-> "OpenAI API key is required"]
\* an exception of the provider call leaves the handler: a server error
ProviderFailed == [status |-> 500, body |-> "Internal Server Error"]

\* NoKey as `api_key == ""`: a missing header is let through
NoKey_empty(api_key) == api_key = ""

\* `not api_key`: the header is missing or empty
NoKey(api_key) == api_key \in {NoHeader, ""}

\* what the provider may do in a chat request: nothing when the handler
\* returns before the call
Answers(is_user, api_key) ==
    IF NoKey(api_key) \/ is_user THEN {NoCompletion} ELSE Completions

\* chat storing the prompt as a user node before it calls the provider
chat_prompt_first(tree, prompt, parent_id, is_user, api_key, answer) ==
    IF NoKey(api_key)
    THEN [tree |-> tree, response |-> KeyRequired, messages |-> <<>>,
          called |-> FALSE]
    ELSE IF is_user
    THEN LET added == add_node(tree, prompt, parent_id, TRUE)
         IN  [tree |-> added.tree,
              response |-> Ok(View(added.id, prompt, parent_id, TRUE)),
              messages |-> <<>>, called |-> FALSE]
    ELSE LET msgs == build_messages(tree.nodes, parent_id, prompt)
             asked == add_node(tree, prompt, parent_id, TRUE)
             done == add_unique(asked.tree, answer.choices, asked.id, <<>>)
         IN  IF answer.raised
             THEN [tree |-> asked.tree, response |-> ProviderFailed,
                   messages |-> msgs, called |-> TRUE]
             ELSE [tree |-> done.tree, response |-> Ok(done.unique),
                   messages |-> msgs, called |-> TRUE]

\* chat answering a response without choices as it answers a failed call
chat_empty_fails(tree, prompt, parent_id, is_user, api_key, answer) ==
    IF NoKey(api_key)
    THEN [tree |-> tree, response |-> KeyRequired, messages |-> <<>>,
          called |-> FALSE]
    ELSE IF is_user
    THEN LET added == add_node(tree, prompt, parent_id, TRUE)
         IN  [tree |-> added.tree,
              response |-> Ok(View(added.id, prompt, parent_id, TRUE)),
              messages |-> <<>>, called |-> FALSE]
    ELSE LET msgs == build_messages(tree.nodes, parent_id, prompt)
             done == add_unique(tree, answer.choices, parent_id, <<>>)
         IN  IF answer.raised \/ answer.choices = <<>>
             THEN [tree |-> tree, response |-> ProviderFailed,
                   messages |-> msgs, called |-> TRUE]
             ELSE [tree |-> done.tree, response |-> Ok(done.unique),
                   messages |-> msgs, called |-> TRUE]

\* chat asking for the key in the replies branch only
chat_key_for_replies(tree, prompt, parent_id, is_user, api_key, answer) ==
    IF is_user
    THEN LET added == add_node(tree, prompt, parent_id, TRUE)
         IN  [tree |-> added.tree,
              response |-> Ok(View(added.id, prompt, parent_id, TRUE)),
              messages |-> <<>>, called |-> FALSE]
    ELSE IF NoKey(api_key)
    THEN [tree |-> tree, response |-> KeyRequired, messages |-> <<>>,
          called |-> FALSE]
    ELSE LET msgs == build_messages(tree.nodes, parent_id, prompt)
             done == add_unique(tree, answer.choices, parent_id, <<>>)
         IN  IF answer.raised
             THEN [tree |-> tree, response |-> ProviderFailed,
                   messages |-> msgs, called |-> TRUE]
             ELSE [tree |-> done.tree, response |-> Ok(done.unique),
                   messages |-> msgs, called |-> TRUE]

\* the chat handler: the tree after it, its response, the messages it built
\* and whether it called the provider, which answers with `answer`
chat(tree, prompt, parent_id, is_user, api_key, answer) ==
    IF NoKey(api_key)
    THEN [tree |-> tree, response |-> KeyRequired, messages |-> <<>>,
          called |-> FALSE]
    ELSE IF is_user
    THEN LET added == add_node(tree, prompt, parent_id, TRUE)
         IN  [tree |-> added.tree,
              response |-> Ok(View(added.id, prompt, parent_id, TRUE)),
              messages |-> <<>>, called |-> FALSE]
    ELSE LET msgs == build_messages(tree.nodes, parent_id, prompt)
             done == add_unique(tree, answer.choices, parent_id, <<>>)
         IN  IF answer.raised
             THEN [tree |-> tree, response |-> ProviderFailed,
                   messages |-> msgs, called |-> TRUE]
             ELSE [tree |-> done.tree, response |-> Ok(done.unique),
                   messages |-> msgs, called |-> TRUE]

(***************************************************************************)
(* The state.                                                              *)
(***************************************************************************)
NoRequest == [op |-> "none"]
NoResponse == [status |-> 0, body |-> <<>>]

\* the parent_id values a client may send: none, one that never named a
\* node, or any id ever given to a node (stored now, or discarded by a reset)
ParentIds == {None, Bogus} \cup (1..(uuid - 1))

Init ==
    /\ nodes = EmptyNodes
    /\ root_id = None
    /\ uuid = 1
    /\ started = FALSE
    /\ request = NoRequest
    /\ response = NoResponse
    /\ messages = <<>>
    /\ called = FALSE
    /\ completion = NoCompletion
    /\ tasks = {}

\* startup_event, run once before any request is served
Startup ==
    /\ ~started
    /\ uuid <= MaxUuid
    /\ LET t == init_chat_tree(Tree(nodes, root_id, uuid))
       IN  /\ nodes' = t.nodes
           /\ root_id' = t.root_id
           /\ uuid' = t.uuid
    /\ started' = TRUE
    /\ request' = [op |-> "startup"]
    /\ response' = NoResponse
    /\ messages' = <<>>
    /\ called' = FALSE
    /\ completion' = NoCompletion
    /\ UNCHANGED tasks

\* POST /chat
Chat ==
    /\ started
    /\ \E prompt \in Prompts, parent_id \in ParentIds, is_user \in BOOLEAN,
          api_key \in ApiKeys :
       \E answer \in Answers(is_user, api_key) :
          \E r \in {chat(Tree(nodes, root_id, uuid), prompt, parent_id,
                        is_user, api_key, answer)} :
              /\ r.tree.uuid <= MaxUuid + 1
              /\ nodes' = r.tree.nodes
              /\ root_id' = r.tree.root_id
              /\ uuid' = r.tree.uuid
              /\ request' = [op |-> "chat", prompt |-> prompt,
                             parent_id |-> parent_id, is_user |-> is_user,
                             api_key |-> api_key]
              /\ response' = r.response
              /\ messages' = r.messages
              /\ called' = r.called
              /\ completion' = IF r.called THEN answer ELSE NoCompletion
    /\ UNCHANGED <<started, tasks>>

\* GET /tree
GetTree ==
    /\ started
    /\ request' = [op |-> "tree"]
    /\ response' = Ok([nodes |-> nodes])
    /\ messages' = <<>>
    /\ called' = FALSE
    /\ completion' = NoCompletion
    /\ UNCHANGED <<nodes, root_id, uuid, started, tasks>>

\* POST /reset
Reset ==
    /\ started
    /\ uuid <= MaxUuid
    /\ LET t == init_chat_tree(Tree(nodes, root_id, uuid))
       IN  /\ nodes' = t.nodes
           /\ root_id' = t.root_id
           /\ uuid' = t.uuid
    /\ request' = [op |-> "reset"]
    /\ response' = Ok([status |-> "success"])
    /\ messages' = <<>>
    /\ called' = FALSE
    /\ completion' = NoCompletion
    /\ UNCHANGED <<started, tasks>>

Next == Startup \/ Chat \/ GetTree \/ Reset

Spec == Init /\ [][Next]_vars

(***************************************************************************)
(* The handlers line by line.  The event loop runs the handlers: one that  *)
(* has begun runs until it returns or awaits, and none of them awaits      *)
(* (the completion call of line 96 is a call of the synchronous client,    *)
(* which blocks the loop), so a handler begins only when none is running.  *)
(***************************************************************************)
\* a handler that has begun: the request it serves, the line it is at and
\* its locals (messages, response.choices not yet visited, unique_responses)
Task(req, pc, msgs, answer, choices, unique) ==
    [request |-> req, pc |-> pc, messages |-> msgs, answer |-> answer,
     choices |-> choices, unique |-> unique]

\* the task of a handler that runs init_chat_tree
InitTask(op, pc) == Task([op |-> op], pc, <<>>, NoCompletion, <<>>, <<>>)

\* CanStart with line 96 as `await client.chat.completions.create(...)` of
\* the asynchronous client: the loop takes requests while chat awaits it
CanStart_awaiting_call == \A t \in tasks : t.pc = "call"

\* CanStart with an await in the loop of lines 105-118
CanStart_awaiting_in_loop == \A t \in tasks : t.pc = "insert"

\* CanStart with the handlers as plain `def`: each runs on a thread of the
\* pool, beside the others
CanStart_threads == TRUE

\* the event loop takes the next request: no handler is running
CanStart == tasks = {}

\* startup_event begins: line 44
StartupBegin ==
    /\ ~started
    /\ tasks = {}
    /\ uuid <= MaxUuid
    /\ nodes' = EmptyNodes
    /\ tasks' = {InitTask("startup", "root")}
    /\ request' = [op |-> "startup"]
    /\ response' = NoResponse
    /\ messages' = <<>>
    /\ called' = FALSE
    /\ completion' = NoCompletion
    /\ UNCHANGED <<root_id, uuid, started>>

\* reset_tree begins: line 44
ResetBegin ==
    /\ started
    /\ CanStart
    /\ uuid <= MaxUuid
    /\ nodes' = EmptyNodes
    /\ tasks' = tasks \cup {InitTask("reset", "root")}
    /\ request' = [op |-> "reset"]
    /\ response' = NoResponse
    /\ messages' = <<>>
    /\ called' = FALSE
    /\ completion' = NoCompletion
    /\ UNCHANGED <<root_id, uuid, started>>

\* init_chat_tree, line 45
InitRoot(t) ==
    /\ t.pc = "root"
    /\ root_id' = None
    /\ tasks' = (tasks \ {t}) \cup {[t EXCEPT !.pc = "add"]}
    /\ UNCHANGED <<nodes, uuid, started, request, response, messages,
                   called, completion>>

\* init_chat_tree, lines 47-48, and the return of the handler
InitAdd(t) ==
    /\ t.pc = "add"
    /\ uuid <= MaxUuid
    /\ LET tree == Tree(nodes, root_id, uuid)
           after == IF DOMAIN nodes = {}
                    THEN add_node(tree, Greeting, None, FALSE).tree
                    ELSE tree
       IN  /\ nodes' = after.nodes
           /\ root_id' = after.root_id
           /\ uuid' = after.uuid
    /\ started' = TRUE
    /\ tasks' = tasks \ {t}
    /\ request' = t.request
    /\ response' = IF t.request.op = "reset"
                   THEN Ok([status |-> "success"])
                   ELSE NoResponse
    /\ messages' = <<>>
    /\ called' = FALSE
    /\ completion' = NoCompletion

\* chat for a request without key or with is_user: lines 64-82, which
\* return without a call of the provider
ChatShort ==
    /\ started
    /\ CanStart
    /\ \E prompt \in Prompts, parent_id \in ParentIds, is_user \in BOOLEAN,
          api_key \in ApiKeys :
          /\ NoKey(api_key) \/ is_user
          /\ \E r \in {chat(Tree(nodes, root_id, uuid), prompt, parent_id,
                             is_user, api_key, NoCompletion)} :
                /\ r.tree.uuid <= MaxUuid + 1
                /\ nodes' = r.tree.nodes
                /\ root_id' = r.tree.root_id
                /\ uuid' = r.tree.uuid
                /\ request' = [op |-> "chat", prompt |-> prompt,
                               parent_id |-> parent_id, is_user |-> is_user,
                               api_key |-> api_key]
                /\ response' = r.response
                /\ messages' = r.messages
                /\ called' = r.called
                /\ completion' = NoCompletion
    /\ UNCHANGED <<started, tasks>>

\* chat for a replies request with a key begins: lines 64-93
ChatBegin ==
    /\ started
    /\ CanStart
    /\ \E prompt \in Prompts, parent_id \in ParentIds, api_key \in ApiKeys :
          /\ ~NoKey(api_key)
          /\ LET req == [op |-> "chat", prompt |-> prompt,
                         parent_id |-> parent_id, is_user |-> FALSE,
                         api_key |-> api_key]
                 msgs == build_messages(nodes, parent_id, prompt)
             IN  /\ tasks' = tasks \cup
                       {Task(req, "call", msgs, NoCompletion, <<>>, <<>>)}
                 /\ request' = req
                 /\ messages' = msgs
    /\ response' = NoResponse
    /\ called' = FALSE
    /\ completion' = NoCompletion
    /\ UNCHANGED <<nodes, root_id, uuid, started>>

\* the elements of the list seq
Elements(seq) == {seq[i] : i \in 1..Len(seq)}

\* chat, lines 95-101: the provider raises, which ends the handler, or
\* returns its choices
ChatCall(t) ==
    /\ t.pc = "call"
    /\ \E answer \in Completions :
          /\ Cardinality(Elements(answer.choices)) <= MaxUuid + 1 - uuid
          /\ IF answer.raised
             THEN /\ tasks' = tasks \ {t}
                  /\ request' = t.request
                  /\ response' = ProviderFailed
                  /\ messages' = t.messages
                  /\ called' = TRUE
                  /\ completion' = answer
             ELSE /\ tasks' = (tasks \ {t}) \cup
                        {[t EXCEPT !.pc = "insert", !.answer = answer,
                                   !.choices = answer.choices]}
                  /\ UNCHANGED <<request, response, messages, called,
                                 completion>>
    /\ UNCHANGED <<nodes, root_id, uuid, started>>

\* chat, lines 105-118: one iteration of the loop over response.choices
ChatInsert(t) ==
    /\ t.pc = "insert"
    /\ t.choices # <<>>
    /\ LET content == Head(t.choices)
           parent_id == t.request.parent_id
           added == add_node(Tree(nodes, root_id, uuid), content, parent_id,
                             FALSE)
       IN  IF Unseen(content, t.unique)
           THEN /\ uuid <= MaxUuid
                /\ nodes' = added.tree.nodes
                /\ root_id' = added.tree.root_id
                /\ uuid' = added.tree.uuid
                /\ tasks' = (tasks \ {t}) \cup
                      {[t EXCEPT !.choices = Tail(@),
                                 !.unique = Append(@, View(added.id, content,
                                                           parent_id, FALSE))]}
           ELSE /\ tasks' = (tasks \ {t}) \cup
                      {[t EXCEPT !.choices = Tail(@)]}
                /\ UNCHANGED <<nodes, root_id, uuid>>
    /\ UNCHANGED <<started, request, response, messages, called, completion>>

\* chat, line 120
ChatReturn(t) ==
    /\ t.pc = "insert"
    /\ t.choices = <<>>
    /\ tasks' = tasks \ {t}
    /\ request' = t.request
    /\ response' = Ok(t.unique)
    /\ messages' = t.messages
    /\ called' = TRUE
    /\ completion' = t.answer
    /\ UNCHANGED <<nodes, root_id, uuid, started>>

\* get_tree
GetTreeLoop ==
    /\ CanStart
    /\ GetTree

\* a handler begins, or one that has begun goes on
NextLoop ==
    \/ StartupBegin
    \/ ResetBegin
    \/ ChatShort
    \/ ChatBegin
    \/ GetTreeLoop
    \/ \E t \in tasks : InitRoot(t)
    \/ \E t \in tasks : InitAdd(t)
    \/ \E t \in tasks : ChatCall(t)
    \/ \E t \in tasks : ChatInsert(t)
    \/ \E t \in tasks : ChatReturn(t)

SpecLoop == Init /\ [][NextLoop]_vars

(***************************************************************************)
(* What the requests are, in the words of the specification.               *)
(***************************************************************************)
\* the last request was submitUserTurn: POST /chat with is_user
SubmitUserTurn(req) == req.op = "chat" /\ req.is_user
\* the last request was requestReplies: POST /chat without is_user
RequestReplies(req) == req.op = "chat" /\ ~req.is_user
\* the ids of the stored nodes
Stored == DOMAIN nodes
\* how often id occurs in the list seq
Occurrences(seq, id) == Cardinality({i \in 1..Len(seq) : seq[i] = id})

(***************************************************************************)
(* C1: every stored node whose parent_id is the id of a stored node is     *)
(* listed in that node's children exactly once.                            *)
(***************************************************************************)
C1_ChildListedOnce ==
    \A n \in Stored :
        nodes[n].parent_id \in Stored
            => Occurrences(nodes[nodes[n].parent_id].children, n) = 1

\* a node with two children, both stored with its id as their parent_id
C1_Witness ==
    \E p \in Stored :
        /\ Len(nodes[p].children) = 2
        /\ Cardinality({n \in Stored : nodes[n].parent_id = p}) = 2

(***************************************************************************)
(* C2: the tree has exactly one root, the first node added after           *)
(* initialisation or reset, and every other stored node has a parent_id    *)
(* that is the id of a stored node.                                        *)
(***************************************************************************)
C2_OneRootOthersResolve ==
    started =>
        /\ root_id \in Stored
        /\ \A n \in Stored : root_id <= n
        /\ \A n \in Stored \ {root_id} : nodes[n].parent_id \in Stored

(***************************************************************************)
(* C3: requestReplies creates exactly one node per distinct candidate, in  *)
(* first-occurrence order, each with the given parent_id and is_user       *)
(* false, and returns their views in that order; the created contents hold *)
(* no duplicate.                                                           *)
(***************************************************************************)
\* seq without the elements that occurred before, order kept
RECURSIVE FirstOccurrences(_)
FirstOccurrences(seq) ==
    IF seq = <<>>
    THEN <<>>
    ELSE LET front == SubSeq(seq, 1, Len(seq) - 1)
             last == seq[Len(seq)]
         IN  IF \E i \in 1..Len(front) : front[i] = last
             THEN FirstOccurrences(front)
             ELSE Append(FirstOccurrences(front), last)

\* the provider returned its choices to the request handled in this step
ProviderReturned == RequestReplies(request') /\ called' /\ ~completion'.raised

C3_OneNodePerDistinctCandidate ==
    [][ProviderReturned =>
        LET unique == FirstOccurrences(completion'.choices)
            views == response'.body
            created == {views[i].id : i \in 1..Len(views)}
            contents == [i \in 1..Len(views) |-> nodes'[views[i].id].content]
        IN  /\ response'.status = 200
            /\ Len(views) = Len(unique)
            /\ created \cap Stored = {}
            /\ DOMAIN nodes' = Stored \cup created
            /\ Cardinality(created) = Len(unique)
            /\ \A i \in 1..Len(views) :
                   /\ views[i] = View(views[i].id, unique[i],
                                      request'.parent_id, FALSE)
                   /\ nodes'[views[i].id] =
                          Node(views[i].id, unique[i], request'.parent_id,
                               FALSE)
                   /\ \A j \in 1..(i - 1) : views[j].id < views[i].id
            /\ FirstOccurrences(contents) = contents
       ]_vars

\* the provider answered a, b, a and two nodes were created
C3_Witness ==
    /\ RequestReplies(request) /\ called /\ response.status = 200
    /\ Len(completion.choices) = 3
    /\ completion.choices[1] = completion.choices[3]
    /\ completion.choices[1] # completion.choices[2]
    /\ Len(response.body) = 2

(***************************************************************************)
(* C4: when the provider call fails the request fails and the tree (nodes, *)
(* root_id, every children list) is as it was before the request.          *)
(***************************************************************************)
C4_ProviderFailureLeavesTree ==
    [][(RequestReplies(request') /\ called' /\ completion'.raised) =>
        /\ response'.status = 500
        /\ nodes' = nodes
        /\ root_id' = root_id
       ]_vars

\* a failed provider call for a reply to a node below the root
C4_Witness ==
    /\ RequestReplies(request) /\ called /\ completion.raised
    /\ response.status = 500
    /\ request.parent_id \in Stored \ {root_id}

(***************************************************************************)
(* C5: when the provider returns zero candidates requestReplies fails with *)
(* the provider error and creates no nodes.                                *)
(***************************************************************************)
\* the provider returned a response without choices
NoChoices(req, c, did) ==
    RequestReplies(req) /\ did /\ ~c.raised /\ c.choices = <<>>

C5_NoCandidatesFails ==
    NoChoices(request, completion, called) => response.status = 500

\* as the code has it: the request succeeds with an empty list, no node is
\* created
C5_NoCandidatesEmptyList ==
    [][NoChoices(request', completion', called') =>
        /\ response'.status = 200
        /\ response'.body = <<>>
        /\ nodes' = nodes
        /\ root_id' = root_id
        /\ uuid' = uuid
       ]_vars

\* no choices for a reply to a stored node: answered 200 with nothing
C5_Witness ==
    /\ NoChoices(request, completion, called)
    /\ request.parent_id \in Stored
    /\ response.status = 200

(***************************************************************************)
(* C6: requestReplies without a credential fails with the missing-key      *)
(* error before the tree is read or changed and before the provider is     *)
(* called.                                                                 *)
(***************************************************************************)
C6_NoKeyNoTreeNoProvider ==
    [][(RequestReplies(request') /\ request'.api_key = NoHeader) =>
        /\ response'.status = 400
        /\ ~called'
        /\ messages' = <<>>
        /\ nodes' = nodes
        /\ root_id' = root_id
        /\ uuid' = uuid
       ]_vars

\* a replies request without the header, for a stored node, answered 400
C6_Witness ==
    /\ RequestReplies(request) /\ request.api_key = NoHeader
    /\ request.parent_id \in Stored
    /\ response.status = 400 /\ ~called

(***************************************************************************)
(* C7: submitUserTurn always succeeds and creates a node, with or without  *)
(* a credential.                                                           *)
(***************************************************************************)
C7_UserTurnAlwaysSucceeds ==
    SubmitUserTurn(request) => response.status = 200

\* as the code has it: with a key it succeeds and creates one node, without
\* one it fails as a replies request does and creates none
C7_UserTurnSucceedsWithKey ==
    [][SubmitUserTurn(request') =>
        IF request'.api_key = NoHeader
        THEN /\ response'.status = 400
             /\ nodes' = nodes
             /\ root_id' = root_id
             /\ uuid' = uuid
        ELSE /\ response'.status = 200
             /\ response'.body.id \notin Stored
             /\ DOMAIN nodes' = Stored \cup {response'.body.id}
       ]_vars

\* a user turn without the header, answered 400
C7_Witness ==
    /\ SubmitUserTurn(request) /\ request.api_key = NoHeader
    /\ response.status = 400
    /\ Cardinality(Stored) = 1

(***************************************************************************)
(* C8: submitUserTurn(prompt, p) with p stored adds exactly one node with  *)
(* content prompt, parent_id p, is_user true, appends its id to            *)
(* p.children, returns the node's view and leaves root_id and every other  *)
(* node as they were; right after a reset with p the root, the root's      *)
(* children is that one id.                                                *)
(***************************************************************************)
\* the effect of the user turn handled in this step
UserTurnAdded ==
    LET p == request'.parent_id
        view == response'.body
    IN  /\ response'.status = 200
        /\ view.id \notin Stored
        /\ DOMAIN nodes' = Stored \cup {view.id}
        /\ nodes'[view.id] = Node(view.id, request'.prompt, p, TRUE)
        /\ view = View(nodes'[view.id].id, nodes'[view.id].content,
                       nodes'[view.id].parent_id, nodes'[view.id].is_user)
        /\ nodes'[p] =
               [nodes[p] EXCEPT !.children = Append(@, view.id)]
        /\ \A n \in Stored \ {p} : nodes'[n] = nodes[n]
        /\ root_id' = root_id
        /\ (request.op = "reset" /\ p = root_id)
               => nodes'[root_id'].children = <<view.id>>

C8_UserTurnEffect ==
    [][(SubmitUserTurn(request') /\ request'.parent_id \in Stored)
          => UserTurnAdded]_vars

\* as the code has it: the effect is that of a user turn sent with a key
C8_UserTurnEffectWithKey ==
    [][(/\ SubmitUserTurn(request')
        /\ request'.parent_id \in Stored
        /\ request'.api_key # NoHeader)
          => UserTurnAdded]_vars

\* a user turn added as the second child of its parent
C8_Witness ==
    /\ SubmitUserTurn(request) /\ response.status = 200
    /\ request.parent_id \in Stored
    /\ Len(nodes[request.parent_id].children) = 2
    /\ nodes[request.parent_id].children[2] = response.body.id

(***************************************************************************)
(* C9: reset leaves a tree of exactly one node, the greeting, not a user   *)
(* node, without children, whose id is root_id; a second reset in a row    *)
(* leaves a tree of the same shape.                                        *)
(***************************************************************************)
GreetingOnly ==
    /\ Cardinality(Stored) = 1
    /\ root_id \in Stored
    /\ nodes[root_id] = Node(root_id, Greeting, None, FALSE)

\* the tree up to the ids of its nodes
Shape ==
    [count |-> Cardinality(Stored),
     root |-> IF root_id \in Stored
              THEN [nodes[root_id] EXCEPT !.id = None]
              ELSE None]

C9_ResetLeavesGreeting ==
    [][request'.op = "reset" =>
        /\ GreetingOnly'
        /\ request.op = "reset" => Shape' = Shape
       ]_vars

\* a reset after the two ids that followed the startup were used: it cleared
\* a tree of two nodes, or followed another reset
C9_Witness ==
    /\ request.op = "reset"
    /\ root_id = 3
    /\ GreetingOnly

(***************************************************************************)
(* C10: the ancestor chain taken for a node n excludes n, so the history   *)
(* requestReplies sends the provider is the turns of the strict ancestors  *)
(* of parent_id, then the prompt, without a turn for parent_id itself.     *)
(***************************************************************************)
\* the ids of the nodes above n, oldest first, n excluded
RECURSIVE ancestorChain(_)
ancestorChain(n) ==
    IF n \in Stored /\ nodes[n].parent_id \in Stored
    THEN Append(ancestorChain(nodes[n].parent_id), nodes[n].parent_id)
    ELSE <<>>

\* the turns of the nodes of chain, then the prompt
HistoryOf(chain, prompt) ==
    Append([i \in 1..Len(chain) |-> Turn(nodes[chain[i]])],
           [role |-> "user", content |-> prompt])

C10_HistoryExcludesParent ==
    (RequestReplies(request) /\ called) =>
        messages = HistoryOf(ancestorChain(request.parent_id), request.prompt)

\* as the code has it: the walk starts at parent_id, whose turn is the
\* last before the prompt
C10_HistoryIncludesParent ==
    (RequestReplies(request) /\ called) =>
        messages =
            HistoryOf(IF request.parent_id \in Stored
                      THEN Append(ancestorChain(request.parent_id),
                                  request.parent_id)
                      ELSE <<>>,
                      request.prompt)

\* a reply asked for a node two below the root: three turns and the prompt
C10_Witness ==
    /\ RequestReplies(request) /\ called
    /\ Len(ancestorChain(request.parent_id)) = 2
    /\ Len(messages) = 4

(***************************************************************************)
(* C11: the history requestReplies hands the provider is ordered oldest    *)
(* first along one parent chain: each turn before the last is that of a    *)
(* stored node, the parent of the node of the next turn, with role "user"  *)
(* exactly when the node is a user node; the last turn is the prompt, as   *)
(* the user's; with parent_id absent or naming no node the history is the  *)
(* prompt alone.                                                           *)
(***************************************************************************)
\* ids is a path down the tree that ends at node n: each stored, each the
\* parent of the next
PathTo(ids, n) ==
    /\ ids # <<>>
    /\ ids[Len(ids)] = n
    /\ \A i \in 1..Len(ids) : ids[i] \in Stored
    /\ \A i \in 1..(Len(ids) - 1) : nodes[ids[i + 1]].parent_id = ids[i]

\* the sequences of k stored ids
IdsOfLen(k) == [1..k -> Stored]

C11_HistoryOldestFirst ==
    (RequestReplies(request) /\ called) =>
        LET k == Len(messages) - 1
        IN  /\ k >= 0
            /\ messages[k + 1] = [role |-> "user", content |-> request.prompt]
            /\ request.parent_id \notin Stored => k = 0
            /\ request.parent_id \in Stored =>
                   /\ k >= 1
                   /\ \E ids \in IdsOfLen(k) :
                          /\ PathTo(ids, request.parent_id)
                          /\ \A i \in 1..k :
                                 /\ messages[i].content = nodes[ids[i]].content
                                 /\ messages[i].role = "user"
                                        <=> nodes[ids[i]].is_user
                                 /\ messages[i].role = "assistant"
                                        <=> ~nodes[ids[i]].is_user

\* a reply asked for a user node below the greeting: the history is the
\* assistant's turn, the user's turn, the prompt
C11_Witness ==
    /\ RequestReplies(request) /\ called
    /\ request.parent_id \in Stored
    /\ Len(messages) = 3
    /\ messages[1].role = "assistant"
    /\ messages[2].role = "user"

(***************************************************************************)
(* C14: every id in a node's children is the id of a stored node whose     *)
(* parent_id is the id of the node that owns the list.                     *)
(***************************************************************************)
C14_ChildrenAreOwnChildren ==
    \A p \in Stored :
        \A i \in 1..Len(nodes[p].children) :
            /\ nodes[p].children[i] \in Stored
            /\ nodes[nodes[p].children[i]].parent_id = p

\* after a reset: the root that replaced the first one has a child
C14_Witness ==
    /\ root_id = 2
    /\ nodes[root_id].children # <<>>

(***************************************************************************)
(* C15: root_id is assigned by the first insertion after initialisation or *)
(* reset only: no submitUserTurn or requestReplies changes it, and between *)
(* two resets it names the same stored node.                               *)
(***************************************************************************)
Initialising(req) == req.op \in {"startup", "reset"}

C15_RootAssignedOnce ==
    [][/\ ~Initialising(request') =>
             /\ root_id' = root_id
             /\ root_id' \in DOMAIN nodes'
             /\ nodes'[root_id'].id = root_id
       /\ root_id' # root_id =>
             /\ Initialising(request')
             /\ root_id' \in DOMAIN nodes'
             /\ \A n \in DOMAIN nodes' : root_id' <= n
      ]_vars

\* a node sent without parent_id was stored and the root is still the
\* first node
C15_Witness ==
    /\ request.op = "chat" /\ response.status = 200
    /\ request.parent_id = None
    /\ Cardinality(Stored) = 3
    /\ root_id = 1

(***************************************************************************)
(* C16: the parent relation over the stored nodes has no cycle, so the     *)
(* ancestor walk from any id visits no node twice and ends after at most   *)
(* |nodes| steps, at a node whose parent_id is absent or names no node.    *)
(***************************************************************************)
\* the nodes the walk from n visits in at most fuel steps
RECURSIVE Visited(_, _)
Visited(n, fuel) ==
    IF fuel = 0 \/ n = None \/ n \notin Stored
    THEN <<>>
    ELSE <<n>> \o Visited(nodes[n].parent_id, fuel - 1)

\* the ids a walk may start from
Starts == {None, Bogus} \cup (1..(uuid - 1))

C16_WalkTerminates ==
    \A n \in Starts :
        LET seen == Visited(n, Cardinality(Stored) + 1)
        IN  /\ Len(seen) <= Cardinality(Stored)
            /\ \A i, j \in 1..Len(seen) : seen[i] = seen[j] => i = j
            /\ seen # <<>> => nodes[seen[Len(seen)]].parent_id \notin Stored

\* a walk of three nodes, and a walk that ends at a parent_id naming no node
C16_Witness ==
    \/ \E n \in Stored : Len(Visited(n, Cardinality(Stored) + 1)) = 3
    \/ /\ \E n \in Stored : Len(Visited(n, Cardinality(Stored) + 1)) = 2
       /\ \E n \in Stored : nodes[n].parent_id = Bogus

(***************************************************************************)
(* C17: add_node with a parent_id that is supplied but names no stored     *)
(* node, on a tree that has a root, stores the node with that parent_id,   *)
(* returns its id and changes no children list and not root_id: the node   *)
(* is in no children list and is not reachable from the root.              *)
(***************************************************************************)
\* the ids reachable from n by following children, in the nodes map ns
RECURSIVE Below(_, _, _)
Below(ns, n, fuel) ==
    IF fuel = 0 \/ n \notin DOMAIN ns
    THEN {}
    ELSE {n} \cup UNION {Below(ns, ns[n].children[i], fuel - 1) :
                            i \in 1..Len(ns[n].children)}

\* the ids the response of a chat request returns
Returned(req, resp) ==
    IF req.is_user THEN {resp.body.id}
                   ELSE {resp.body[i].id : i \in 1..Len(resp.body)}

C17_DanglingParentOrphan ==
    [][(/\ request'.op = "chat"
        /\ response'.status = 200
        /\ request'.parent_id # None
        /\ request'.parent_id \notin Stored
        /\ root_id # None) =>
        LET created == DOMAIN nodes' \ Stored
        IN  /\ created = Returned(request', response')
            /\ SubmitUserTurn(request') => Cardinality(created) = 1
            /\ \A n \in Stored : n \in DOMAIN nodes' /\ nodes'[n] = nodes[n]
            /\ root_id' = root_id
            /\ \A c \in created :
                   /\ nodes'[c].parent_id = request'.parent_id
                   /\ nodes'[c].children = <<>>
                   /\ \A n \in DOMAIN nodes' :
                          Occurrences(nodes'[n].children, c) = 0
                   /\ c \notin Below(nodes', root_id',
                                     Cardinality(DOMAIN nodes') + 1)
       ]_vars

\* a user turn stored with a parent_id that names no node, beside a root
\* that has a child
C17_Witness ==
    /\ SubmitUserTurn(request) /\ response.status = 200
    /\ request.parent_id \notin Stored
    /\ request.parent_id # None
    /\ response.body.id \in Stored
    /\ nodes[root_id].children # <<>>

(***************************************************************************)
(* C18: between resets no node is removed and no stored node's id,         *)
(* content, parent_id or is_user changes; its children only grows at the   *)
(* end: the list before an operation other than reset is a prefix of the   *)
(* list after it.                                                          *)
(***************************************************************************)
IsPrefix(a, b) == Len(a) <= Len(b) /\ SubSeq(b, 1, Len(a)) = a

C18_NodesOnlyGrow ==
    [][~Initialising(request') =>
        \A n \in Stored :
            /\ n \in DOMAIN nodes'
            /\ nodes'[n].id = nodes[n].id
            /\ nodes'[n].content = nodes[n].content
            /\ nodes'[n].parent_id = nodes[n].parent_id
            /\ nodes'[n].is_user = nodes[n].is_user
            /\ IsPrefix(nodes[n].children, nodes'[n].children)
       ]_vars

\* a node that got its second child from a later request than its first
C18_Witness ==
    /\ SubmitUserTurn(request) /\ response.status = 200
    /\ request.parent_id \in Stored
    /\ nodes[request.parent_id].children = <<2, 3>>

(***************************************************************************)
(* C20: in every state the service operations reach the root is the        *)
(* greeting node of the initialisation: no parent_id, not a user node, the *)
(* fixed greeting as content; a node a caller sent is never the root.      *)
(***************************************************************************)
C20_RootIsGreeting ==
    started =>
        /\ root_id \in Stored
        /\ nodes[root_id].parent_id = None
        /\ ~nodes[root_id].is_user
        /\ nodes[root_id].content = Greeting
        /\ \A n \in Stored :
               (nodes[n].is_user \/ nodes[n].content \in Replies)
                   => n # root_id

\* a caller's nodes, one without parent_id and one with a parent_id that
\* names no node, stored beside the greeting root
C20_Witness ==
    /\ started
    /\ \E n \in Stored : nodes[n].is_user /\ nodes[n].parent_id = Bogus
    /\ \E n \in Stored : n # root_id /\ nodes[n].parent_id = None

(***************************************************************************)
(* C12: requestReplies commits its reply nodes all or none with respect to *)
(* the other operations: no getTree, submitUserTurn, reset or other        *)
(* requestReplies sees a state in which some but not all of the            *)
(* deduplicated replies of one call are stored.                            *)
(***************************************************************************)
\* handler t has stored some of its replies and has more to store
Partial(t) ==
    /\ t.pc = "insert"
    /\ t.unique # <<>>
    /\ \E i \in 1..Len(t.choices) :
          \A j \in 1..Len(t.unique) : t.unique[j].content # t.choices[i]

\* while a handler is part way through its replies every step is its own:
\* no other handler begins, goes on or returns
C12_RepliesAllOrNone ==
    [][\A t \in tasks : Partial(t) => t \notin tasks']_vars

\* a replies request that has stored the first of its two replies
C12_Witness ==
    \E t \in tasks :
        /\ Partial(t)
        /\ Len(t.unique) = 1
        /\ t.unique[1].id \in Stored

(***************************************************************************)
(* C13: for every successful requestReplies(prompt, p, credential) with p  *)
(* the id of a stored node when the request began, every reply node it     *)
(* returns is listed in p.children when it completes.                      *)
(***************************************************************************)
\* the replies request answered last found its parent_id stored at line 87:
\* its history has a turn before the prompt
ParentWasStored == Len(messages) > 1

C13_RepliesUnderParent ==
    (RequestReplies(request) /\ response.status = 200 /\ ParentWasStored) =>
        /\ request.parent_id \in Stored
        /\ \A i \in 1..Len(response.body) :
               /\ response.body[i].id \in Stored
               /\ Occurrences(nodes[request.parent_id].children,
                              response.body[i].id) = 1

\* two replies returned for a stored parent
C13_Witness ==
    /\ RequestReplies(request) /\ response.status = 200 /\ ParentWasStored
    /\ tasks = {}
    /\ Len(response.body) = 2

(***************************************************************************)
(* C19: reset is atomic to readers: after startup no getTree and no        *)
(* ancestor walk of a requestReplies sees a state in the middle of a       *)
(* reset, where nodes is empty, root_id is unset or root_id names no       *)
(* stored node.                                                            *)
(***************************************************************************)
\* this step reads the tree: get_tree answers, or a replies request walks
\* the ancestors (lines 85-93)
ReadStep ==
    \/ request'.op = "tree" /\ response'.status = 200
    \/ \E t \in tasks' \ tasks : t.pc = "call"

C19_ReadersSeeNoReset ==
    [][ReadStep =>
        /\ Stored # {}
        /\ root_id # None
        /\ root_id \in Stored
       ]_vars

\* the middle of a reset: nodes is empty and root_id still names the
\* discarded root
C19_Witness ==
    /\ started
    /\ \E t \in tasks : t.request.op = "reset"
    /\ Stored = {}
    /\ root_id # None

=============================================================================
